---- MODULE Spec2Model ----
(***************************************************************************)
(* Model of CNC-Werkzeuge-to-FreeCAD-Files.py: one run of main(), which    *)
(* turns the rows of a tool sheet into tool files (.fctb) and the marker   *)
(* columns of a second sheet into library files (.fctl).                   *)
(*                                                                         *)
(* Text is a sequence of one-character strings, so that the program's      *)
(* string functions (lower, replace, split, re.sub, basename) are computed *)
(* character by character.  An empty cell of a sheet is NaN.               *)
(***************************************************************************)
EXTENDS Integers, Sequences, FiniteSets, TLC

(***************************************************************************)
(* Bounds of the model.                                                    *)
(***************************************************************************)
\* rows of the tool sheet (sheet 1) that one run iterates over
MaxRows == 2
\* data rows of the library sheet (sheet 2) below its three heading rows
MaxLibRows == 2

(***************************************************************************)
(* Python values.                                                          *)
(***************************************************************************)
\* None and the empty string: the program tests both only by truthiness
None == <<>>

Truthy(v) == v # None

\* an empty cell, a text cell, a numeric cell (a float i.f)
NaN == [t |-> "nan"]

Txt(s) == [t |-> "str", s |-> s]

Num(i, f) == [t |-> "float", i |-> i, f |-> f]

isna(cell) == cell.t = "nan"

DigitChars == <<"0", "1", "2", "3", "4", "5", "6", "7", "8", "9">>

RECURSIVE IntStr(_)
IntStr(n) == IF n < 10 THEN <<DigitChars[n + 1]>>
             ELSE IntStr(n \div 10) \o <<DigitChars[(n % 10) + 1]>>

\* str(x) and f"{x}"
PyStr(cell) == CASE cell.t = "nan" -> <<"n", "a", "n">>
                 [] cell.t = "str" -> cell.s
                 [] cell.t = "float" -> IntStr(cell.i) \o <<".">> \o IntStr(cell.f)

UpperChars == <<"A", "B", "C", "D", "E", "F", "G", "H", "I", "J", "K", "L", "M",
                "N", "O", "P", "Q", "R", "S", "T", "U", "V", "W", "X", "Y", "Z">>

LowerChars == <<"a", "b", "c", "d", "e", "f", "g", "h", "i", "j", "k", "l", "m",
                "n", "o", "p", "q", "r", "s", "t", "u", "v", "w", "x", "y", "z">>

Range(s) == {s[i] : i \in DOMAIN s}

LowerCh(c) == IF \E i \in DOMAIN UpperChars : UpperChars[i] = c
              THEN LowerChars[CHOOSE i \in DOMAIN UpperChars : UpperChars[i] = c]
              ELSE c

\* str.lower()
StrLower(s) == [i \in DOMAIN s |-> LowerCh(s[i])]

\* str.endswith(suffix)
EndsWith(s, suffix) ==
    /\ Len(s) >= Len(suffix)
    /\ SubSeq(s, Len(s) - Len(suffix) + 1, Len(s)) = suffix

\* str.replace(old, new): every occurrence, left to right, not overlapping
RECURSIVE Replace(_, _, _)
Replace(s, old, new) ==
    IF Len(s) < Len(old) THEN s
    ELSE IF SubSeq(s, 1, Len(old)) = old
         THEN new \o Replace(SubSeq(s, Len(old) + 1, Len(s)), old, new)
         ELSE <<s[1]>> \o Replace(Tail(s), old, new)

\* the index of the last character of s that is in seps, 0 if there is none
LastIndexIn(s, seps) ==
    IF \E i \in DOMAIN s : s[i] \in seps
    THEN CHOOSE i \in DOMAIN s : s[i] \in seps /\ \A j \in DOMAIN s : j > i => s[j] \notin seps
    ELSE 0

\* s.split(sep)[-1] for a one-character sep
SplitLast(s, sep) == SubSeq(s, LastIndexIn(s, {sep}) + 1, Len(s))

\* re.sub(r'[<from>]', to, s) for a one-character class
SubChar(s, from, to) == [i \in DOMAIN s |-> IF s[i] = from THEN to ELSE s[i]]

\* re.sub(r'[^0-9a-zA-Z_]', '', s)
AllowedChars == Range(DigitChars) \cup Range(UpperChars) \cup Range(LowerChars) \cup {"_"}

StripDisallowed(s) == SelectSeq(s, LAMBDA c : c \in AllowedChars)

(***************************************************************************)
(* Literal texts of the program.                                           *)
(***************************************************************************)
ExtFcstd == <<".", "f", "c", "s", "t", "d">>

ExtFctb == <<".", "f", "c", "t", "b">>

ExtFctl == <<".", "f", "c", "t", "l">>

\* the prefix generate_library_tool_structure strips from a tool path
LiteralPrefix == <<"s", "j", "j", "_">>

UnitMM == <<" ", "m", "m">>

UnitDeg == <<" ", " ", "°">>

sBallend == <<"b", "a", "l", "l", "e", "n", "d">>

sBullnose == <<"b", "u", "l", "l", "n", "o", "s", "e">>

sChamfer == <<"c", "h", "a", "m", "f", "e", "r">>

sDrill == <<"d", "r", "i", "l", "l">>

sEndmill == <<"e", "n", "d", "m", "i", "l", "l">>

sFlatend == <<"f", "l", "a", "t", "e", "n", "d">>

sProbe == <<"p", "r", "o", "b", "e">>

sSlittingsaw == <<"s", "l", "i", "t", "t", "i", "n", "g", "s", "a", "w">>

sThreadMill == <<"t", "h", "r", "e", "a", "d", "-", "m", "i", "l", "l">>

sVBit == <<"v", "-", "b", "i", "t">>

(***************************************************************************)
(* os.path on the two platforms the script can run on.                     *)
(***************************************************************************)
PathSeps(os_name) == IF os_name = "nt" THEN {"/", "\\"} ELSE {"/"}

\* os.sep
OsSep(os_name) == IF os_name = "nt" THEN "\\" ELSE "/"

\* os.path.join(a, b) for a relative b without a drive
OsPathJoin(os_name, a, b) ==
    IF a = <<>> THEN b
    ELSE IF a[Len(a)] \in PathSeps(os_name) THEN a \o b
    ELSE a \o <<OsSep(os_name)>> \o b

\* os.path.basename(p)
OsPathBasename(os_name, p) == SubSeq(p, LastIndexIn(p, PathSeps(os_name)) + 1, Len(p))

(***************************************************************************)
(* clean_filename                                                          *)
(***************************************************************************)
\* a faulty variant: the third substitution is missing
clean_filename_nostrip(filename) == SubChar(SubChar(filename, "°", "G"), "-", "_")

clean_filename(filename) ==
    StripDisallowed(SubChar(SubChar(filename, "°", "G"), "-", "_"))

(***************************************************************************)
(* read_shape_files: files is the listing of the shape directory           *)
(***************************************************************************)
read_shape_files(files) ==
    LET shapes == {f \in files : EndsWith(f, ExtFcstd)}
        key(f) == StrLower(Replace(f, ExtFcstd, <<>>))
    IN [k \in {key(f) : f \in shapes} |-> CHOOSE f \in shapes : key(f) = k]

(***************************************************************************)
(* load_config: the dict comprehension over the <type_shape_mapping>       *)
(* children keeps the attributes as written; a later child with the same   *)
(* type replaces an earlier one.                                           *)
(***************************************************************************)
type_shape_dict(children) ==
    LET last(k) == CHOOSE i \in DOMAIN children :
                       /\ children[i][1] = k
                       /\ \A j \in DOMAIN children : children[j][1] = k => j <= i
    IN [k \in {children[i][1] : i \in DOMAIN children} |-> children[last(k)][2]]

load_config(xml) ==
    [prefix |-> xml.prefix,
     output_directory |-> xml.output_directory,
     type_shape_mapping |-> type_shape_dict(xml.type_shape_mapping),
     library_version |-> xml.library_version]

(***************************************************************************)
(* get_shape_for_type: the template file name, or None                     *)
(***************************************************************************)
\* a faulty variant: the mapped name is not looked up in the catalog
get_shape_for_type_nocatalog(tool_type, type_shape_mapping, available_shapes) ==
    LET k == StrLower(PyStr(tool_type))
        shape_key == IF k \in DOMAIN type_shape_mapping THEN type_shape_mapping[k] ELSE None
    IN IF Truthy(shape_key)
       THEN IF shape_key \in DOMAIN available_shapes
            THEN available_shapes[shape_key]
            ELSE shape_key \o ExtFcstd
       ELSE None

get_shape_for_type(tool_type, type_shape_mapping, available_shapes) ==
    LET k == StrLower(PyStr(tool_type))
        shape_key == IF k \in DOMAIN type_shape_mapping THEN type_shape_mapping[k] ELSE None
    IN IF Truthy(shape_key) /\ shape_key \in DOMAIN available_shapes
       THEN available_shapes[shape_key]
       ELSE None

(***************************************************************************)
(* create_tool_definition                                                  *)
(***************************************************************************)
\* row.get(key, default) of a pandas row: the default is used only when the
\* row has no such column; an empty cell of an existing column is NaN
RowGet(row, key, default) == IF key \in DOMAIN row THEN row[key] ELSE default

\* row.get('Front Ø', '4,00') / 2 raises TypeError when the value is text
DivRaises(row) == RowGet(row, "Front Ø", Txt(<<"4", ",", "0", "0">>)).t = "str"

\* the local values of lines 180-240 (the first flatRadius is overwritten)
ToolValues(row) ==
    [chipload |-> PyStr(RowGet(row, "Chipload", Txt(<<"0", ",", "0", "0">>))) \o UnitMM,
     cuttingEdgeHeight |-> PyStr(RowGet(row, "Schneidlänge", Txt(<<"1", ",", "0", "0">>))) \o UnitMM,
     diameter |-> PyStr(RowGet(row, "Schneidende Ø", Txt(<<"1", ",", "0", "0">>))) \o UnitMM,
     flutes |-> PyStr(RowGet(row, "Zahnanzahl", Txt(<<"0">>))),
     lenght |-> PyStr(RowGet(row, "Gesamtlänge", Txt(<<"2", ",", "0", "0">>))) \o UnitMM,
     material |-> PyStr(RowGet(row, "Beschichtung", Txt(<<>>))),
     shankDiameter |-> PyStr(RowGet(row, "Schaft Ø", Txt(<<"4", ",", "0", "0">>))) \o UnitMM,
     cuttingEdgeAngle |-> PyStr(RowGet(row, "Schneidwinkel", Txt(<<"9", "0", ",", "0", "0">>))) \o UnitDeg,
     tipDiameter |-> PyStr(RowGet(row, "Front Ø", Txt(<<"4", ",", "0", "0">>))) \o UnitMM,
     tipAngle |-> PyStr(RowGet(row, "Schneidwinkel", Txt(<<"9", "0", ",", "0", "0">>))) \o UnitDeg,
     flatRadius |-> PyStr(RowGet(row, "Front Ø", Txt(<<"4", ",", "0", "0">>))) \o UnitMM,
     spindleDirection |-> <<"F", "o", "r", "w", "a", "r", "d">>,
     spindlePower |-> <<"F", "a", "l", "s", "e">>,
     bladeThickness |-> <<"3", ",", "0", "0">> \o UnitMM,
     capDiameter |-> <<"8", ",", "0", "0">> \o UnitMM,
     capHeight |-> <<"3", ",", "0", "0">> \o UnitMM,
     crest |-> <<"0", ",", "1", "0">> \o UnitMM,
     neckDiameter |-> <<"3", ",", "0", "0">> \o UnitMM,
     neckLenght |-> <<"3", ",", "0", "0">> \o UnitMM,
     cuttingAngle |-> PyStr(RowGet(row, "Schneidwinkel", Txt(<<"9", "0", ",", "0", "0">>))) \o UnitDeg]

\* the if/elif chain of lines 245-370; tool_shape is the template FILE name
\* that get_shape_for_type returned; no branch taken leaves the empty dict
ToolParameter(tool_shape, v) ==
    IF tool_shape = sBallend THEN
        [Chipload |-> v.chipload, CuttingEdgeHeight |-> v.cuttingEdgeHeight,
         Diameter |-> v.diameter, Flutes |-> v.flutes, Length |-> v.lenght,
         Material |-> v.material, ShankDiameter |-> v.shankDiameter]
    ELSE IF tool_shape = sBullnose THEN
        [Chipload |-> v.chipload, CuttingEdgeHeight |-> v.cuttingEdgeHeight,
         Diameter |-> v.diameter, FlatRadius |-> v.flatRadius, Flutes |-> v.flutes,
         Length |-> v.lenght, Material |-> v.material, ShankDiameter |-> v.shankDiameter]
    ELSE IF tool_shape = sChamfer THEN
        [Chipload |-> v.chipload, CuttingEdgeAngle |-> v.cuttingEdgeAngle,
         CuttingEdgeHeight |-> v.cuttingEdgeHeight, Diameter |-> v.diameter,
         Flutes |-> v.flutes, Length |-> v.lenght, Material |-> v.material,
         ShankDiameter |-> v.shankDiameter, TipDiameter |-> v.tipDiameter]
    ELSE IF tool_shape = sDrill THEN
        [Chipload |-> v.chipload, Diameter |-> v.diameter, Flutes |-> v.flutes,
         Length |-> v.lenght, Material |-> v.material, TipAngle |-> v.tipAngle]
    ELSE IF tool_shape = sEndmill THEN
        [Chipload |-> v.chipload, CuttingEdgeHeight |-> v.cuttingEdgeHeight,
         Diameter |-> v.diameter, Flutes |-> v.flutes, Length |-> v.lenght,
         Material |-> v.material, ShankDiameter |-> v.shankDiameter,
         SpindleDirection |-> v.spindleDirection]
    ELSE IF tool_shape = sFlatend THEN
        [Chipload |-> v.chipload, CuttingEdgeHeight |-> v.cuttingEdgeHeight,
         Diameter |-> v.diameter, Flutes |-> v.flutes, Length |-> v.lenght,
         Material |-> v.material, ShankDiameter |-> v.shankDiameter]
    ELSE IF tool_shape = sProbe THEN
        [Diameter |-> v.diameter, Flutes |-> v.flutes, Length |-> v.lenght,
         ShankDiameter |-> v.shankDiameter, spindlePower |-> v.spindlePower]
    ELSE IF tool_shape = sSlittingsaw THEN
        [BladeThickness |-> v.bladeThickness, CapDiameter |-> v.capDiameter,
         CapHeight |-> v.capHeight, Chipload |-> v.chipload, Diameter |-> v.diameter,
         Flutes |-> v.flutes, Length |-> v.lenght, Material |-> v.material,
         ShankDiameter |-> v.shankDiameter]
    ELSE IF tool_shape = sThreadMill THEN
        [Chipload |-> v.chipload, Crest |-> v.crest, Diameter |-> v.diameter,
         Flutes |-> v.flutes, Length |-> v.lenght, Material |-> v.material,
         NeckDiameter |-> v.neckDiameter, NeckLength |-> v.neckLenght,
         ShankDiameter |-> v.shankDiameter, cuttingAngle |-> v.cuttingAngle]
    ELSE IF tool_shape = sVBit THEN
        [Chipload |-> v.chipload, CuttingEdgeAngle |-> v.cuttingEdgeAngle,
         CuttingEdgeHeight |-> v.cuttingEdgeHeight, Diameter |-> v.diameter,
         Flutes |-> v.flutes, Length |-> v.lenght, Material |-> v.material,
         ShankDiameter |-> v.shankDiameter, TipDiameter |-> v.tipDiameter]
    ELSE <<>>

\* tool_name of line 164
ToolName(row, config) == config.prefix \o clean_filename(row["Bezeichnung"].s)

\* the tool_data of lines 165-171 with its parameter filled in
ToolData(row, config, tool_shape) ==
    [version |-> 2,
     name |-> ToolName(row, config),
     shape |-> tool_shape,
     parameter |-> ToolParameter(tool_shape, ToolValues(row)),
     attribute |-> <<>>]

\* fctb_filename of line 372
FctbFilename(os_name, row, config) ==
    OsPathJoin(os_name, config.output_directory, ToolName(row, config) \o ExtFctb)

(***************************************************************************)
(* The inputs of a run: the configuration file, the listing of the shape   *)
(* directory, and the cells of the two sheets.                             *)
(***************************************************************************)
LblT1 == <<"T", "-", "1">>

LblT1u == <<"T", "_", "1">>

LblB2 == <<"B", " ", "2">>

Labels == {LblT1, LblT1u, LblB2}

KfKugel == <<"K", "u", "g", "e", "l">>

KfBohrer == <<"b", "o", "h", "r", "e", "r">>

KfSaege == <<"S", "a", "e", "g", "e">>

KfNut == <<"N", "u", "t">>

DirOut == <<"o", "u", "t">>

PrefixOther == <<"t", "_">>

MappingLower == <<<<StrLower(KfKugel), sBallend>>, <<KfBohrer, sDrill>>,
                  <<StrLower(KfSaege), sSlittingsaw>>>>

MappingMixed == <<<<KfKugel, sBallend>>, <<KfBohrer, sDrill>>>>

ConfigFiles ==
    {[prefix |-> LiteralPrefix, output_directory |-> DirOut,
      type_shape_mapping |-> MappingLower, library_version |-> 1],
     [prefix |-> LiteralPrefix, output_directory |-> DirOut,
      type_shape_mapping |-> MappingMixed, library_version |-> 1],
     [prefix |-> PrefixOther, output_directory |-> DirOut,
      type_shape_mapping |-> MappingLower, library_version |-> 3]}

ShapeDirListing == {sBallend \o ExtFcstd,
                    <<"D", "r", "i", "l", "l">> \o ExtFcstd,
                    sEndmill \o ExtFcstd,
                    <<"r", "e", "a", "d", "m", "e", ".", "t", "x", "t">>}

\* the attribute cells of a tool row: all filled, all empty, text in 'Front Ø'
AttrFilled == [schaft |-> Num(6, 0), front |-> Num(1, 0), schneidende |-> Num(6, 0),
               winkel |-> Num(90, 0), laenge |-> Num(50, 0), schneidlaenge |-> Num(20, 0),
               zahn |-> Num(2, 0), beschichtung |-> Txt(<<"T", "i", "N">>)]

AttrEmpty == [schaft |-> NaN, front |-> NaN, schneidende |-> NaN, winkel |-> NaN,
              laenge |-> NaN, schneidlaenge |-> NaN, zahn |-> NaN, beschichtung |-> NaN]

AttrText == [AttrFilled EXCEPT !.front = Txt(<<"1", ",", "0">>)]

\* the columns of sheet 1 (lines 144-157); there is no column 'Chipload'
Columns == {"Bezeichnung", "Typ", "Kopfform", "Schaft Ø", "Front Ø", "Schneidende Ø",
            "Schneidwinkel", "Gesamtlänge", "Schneidlänge", "Freischlifflänge",
            "Zahnanzahl", "Beschichtung", "für Material"}

MakeRow(label, kopfform, a) ==
    [c \in Columns |->
        CASE c = "Bezeichnung" -> label
          [] c = "Kopfform" -> kopfform
          [] c = "Schaft Ø" -> a.schaft
          [] c = "Front Ø" -> a.front
          [] c = "Schneidende Ø" -> a.schneidende
          [] c = "Schneidwinkel" -> a.winkel
          [] c = "Gesamtlänge" -> a.laenge
          [] c = "Schneidlänge" -> a.schneidlaenge
          [] c = "Zahnanzahl" -> a.zahn
          [] c = "Beschichtung" -> a.beschichtung
          [] OTHER -> NaN]

RowSet ==
    {MakeRow(Txt(l), Txt(KfKugel), AttrFilled) : l \in Labels}
    \cup {MakeRow(Txt(LblT1), k, AttrFilled) : k \in {Txt(KfBohrer), Txt(KfSaege), Txt(KfNut), NaN}}
    \cup {MakeRow(NaN, Txt(KfKugel), AttrFilled)}
    \cup {MakeRow(Txt(LblT1), Txt(KfKugel), a) : a \in {AttrEmpty, AttrText}}

\* a row of sheet 2: cell 1 is column 0, the library columns start at column 5
LibRow(first, m5, m6) == <<first, NaN, NaN, NaN, NaN, m5, m6>>

LibHolz == <<"H", "o", "l", "z">>

LibAlu == <<"A", "l", "u">>

HeadingRows == {LibRow(NaN, Txt(LibHolz), Txt(LibAlu)), LibRow(NaN, NaN, Txt(LibHolz))}

MarkX == Txt(<<"x">>)

LibRowSet == {LibRow(Txt(LblT1), MarkX, NaN),
              LibRow(Txt(LblB2), MarkX, MarkX),
              LibRow(Txt(LblT1u), Txt(<<"X">>), MarkX),
              LibRow(Txt(KfNut), MarkX, NaN),
              LibRow(NaN, MarkX, MarkX)}

(***************************************************************************)
(* read_additional_libraries                                               *)
(***************************************************************************)
\* excelFile.iloc[2, 5:]: the heading row and the first library column
HeaderRowIndex == 2

LibColOffset == 5

RECURSIVE SortedSeq(_)
SortedSeq(S) == IF S = {} THEN <<>>
                ELSE LET m == CHOOSE x \in S : \A y \in S : x <= y
                     IN <<m>> \o SortedSeq(S \ {m})

\* the dict name -> column index as the sequence of its items: a name keeps
\* the place of its first column and takes the index of its last one
read_additional_libraries(excelFile) ==
    LET hdr == excelFile[HeaderRowIndex + 1]
        named == {c \in LibColOffset .. (Len(hdr) - 1) : ~isna(hdr[c + 1])}
        firsts == {c \in named : \A d \in named : d < c => hdr[d + 1] # hdr[c + 1]}
        lastOf(c) == CHOOSE d \in named :
                        /\ hdr[d + 1] = hdr[c + 1]
                        /\ \A e \in named : hdr[e + 1] = hdr[c + 1] => e <= d
        order == SortedSeq(firsts)
    IN [i \in DOMAIN order |-> <<hdr[order[i] + 1].s, lastOf(order[i])>>]

(***************************************************************************)
(* generate_library_tool_structure                                         *)
(***************************************************************************)
\* the key of a tool path in tool_names_to_path (line 438)
ToolKey(path) ==
    Replace(Replace(SplitLast(path, "\\"), LiteralPrefix, <<>>), ExtFctb, <<>>)

\* tool_names_to_path: a later path with the same key replaces an earlier one
tool_names_to_path(paths) ==
    LET last(k) == CHOOSE i \in DOMAIN paths :
                       /\ ToolKey(paths[i]) = k
                       /\ \A j \in DOMAIN paths : ToolKey(paths[j]) = k => j <= i
    IN [k \in {ToolKey(paths[i]) : i \in DOMAIN paths} |-> paths[last(k)]]

IsMarked(cell) == cell.t = "str" /\ cell.s = <<"x">>

\* a faulty variant: the tool name is not looked up before the markers are read
AssignRow_unchecked(libs, row, names_with_index, paths) ==
    IF isna(row[1]) THEN libs
    ELSE LET tool_name == clean_filename(row[1].s)
             n2p == tool_names_to_path(paths)
             tool_path == IF tool_name \in DOMAIN n2p THEN n2p[tool_name]
                          ELSE LiteralPrefix \o tool_name \o ExtFctb
         IN [l \in DOMAIN libs |->
               IF \E i \in DOMAIN names_with_index :
                     /\ names_with_index[i][1] = l
                     /\ IsMarked(row[names_with_index[i][2] + 1])
               THEN Append(libs[l], tool_path)
               ELSE libs[l]]

\* one pass of the loop of lines 446-456 over the row `row`
AssignRow(libs, row, names_with_index, paths) ==
    IF isna(row[1]) THEN libs
    ELSE LET tool_name == clean_filename(row[1].s)
             n2p == tool_names_to_path(paths)
         IN IF tool_name \in DOMAIN n2p
            THEN [l \in DOMAIN libs |->
                    IF \E i \in DOMAIN names_with_index :
                          /\ names_with_index[i][1] = l
                          /\ IsMarked(row[names_with_index[i][2] + 1])
                    THEN Append(libs[l], n2p[tool_name])
                    ELSE libs[l]]
            ELSE libs

(***************************************************************************)
(* generate_library_files                                                  *)
(***************************************************************************)
\* a faulty variant: the numbering starts at 0
LibraryData_zero(os_name, tool_paths, config) ==
    [tools |-> [i \in DOMAIN tool_paths |->
                   [nr |-> i - 1, path |-> OsPathBasename(os_name, tool_paths[i])]],
     version |-> config.library_version]

LibraryData(os_name, tool_paths, config) ==
    [tools |-> [i \in DOMAIN tool_paths |->
                   [nr |-> i, path |-> OsPathBasename(os_name, tool_paths[i])]],
     version |-> config.library_version]

FctlFilename(os_name, library_name, config) ==
    OsPathJoin(os_name, config.output_directory, config.prefix \o library_name \o ExtFctl)

(***************************************************************************)
(* The state of a run of main().                                           *)
(***************************************************************************)
VARIABLES
    pc,                        \* the statement of main() the run is at
    os_name,                   \* the platform: "nt" or "posix"
    config,                    \* load_config's result
    available_shapes,          \* read_shape_files' result
    werkzeuge,                 \* sheet 1: the rows the loop has iterated over
    werkzeuge_libs,            \* sheet 2: its heading rows and the rows scanned
    library_names_with_index,  \* read_additional_libraries' result
    tool_names,                \* main's list of the labels seen
    tools_paths,               \* main's list of the tool paths
    classified,                \* per row of sheet 1, the branch the loop took
    calls,                     \* the calls of create_tool_definition
    tool_writes,               \* the attempts to write a tool file
    scanned,                   \* rows of sheet 2 the assignment loop is past
    libraries_with_tool_paths, \* generate_library_tool_structure's dict
    lib_writes,                \* the attempts to write a library file
    log,                       \* the log file from load_config on, level INFO and above
    phases,                    \* the phases of the run finished so far
    cleaned                    \* the last call of clean_filename made by itself

vars == <<pc, os_name, config, available_shapes, werkzeuge, werkzeuge_libs,
          library_names_with_index, tool_names, tools_paths, classified, calls,
          tool_writes, scanned, libraries_with_tool_paths, lib_writes, log, phases,
          cleaned>>

NoConfig == [prefix |-> <<>>, output_directory |-> <<>>,
             type_shape_mapping |-> <<>>, library_version |-> 0]

Init ==
    /\ pc = "load_config"
    /\ os_name \in {"nt", "posix"}
    /\ config = NoConfig
    /\ available_shapes = <<>>
    /\ werkzeuge = <<>>
    /\ werkzeuge_libs = <<>>
    /\ library_names_with_index = <<>>
    /\ tool_names = <<>>
    /\ tools_paths = <<>>
    /\ classified = <<>>
    /\ calls = <<>>
    /\ tool_writes = <<>>
    /\ scanned = 0
    /\ libraries_with_tool_paths = <<>>
    /\ lib_writes = <<>>
    /\ log = <<>>
    /\ phases = <<>>
    /\ cleaned = <<>>

(***************************************************************************)
(* main(): the order of its statements, as the statement that follows.     *)
(***************************************************************************)
\* a faulty variant: the library columns are read after the loop over sheet 1
AfterPhase_indexlate(p) ==
    CASE p = "load_config" -> "makedirs"
      [] p = "makedirs" -> "read_shape_files"
      [] p = "read_shape_files" -> "read_sheet1"
      [] p = "read_sheet1" -> "read_sheet2"
      [] p = "read_sheet2" -> "tool_rows"
      [] p = "tool_rows" -> "read_additional_libraries"
      [] p = "read_additional_libraries" -> "assign"
      [] p = "assign" -> "write_libs"
      [] p = "write_libs" -> "done"

AfterPhase(p) ==
    CASE p = "load_config" -> "makedirs"
      [] p = "makedirs" -> "read_shape_files"
      [] p = "read_shape_files" -> "read_sheet1"
      [] p = "read_sheet1" -> "read_sheet2"
      [] p = "read_sheet2" -> "read_additional_libraries"
      [] p = "read_additional_libraries" -> "tool_rows"
      [] p = "tool_rows" -> "assign"
      [] p = "assign" -> "write_libs"
      [] p = "write_libs" -> "done"

(***************************************************************************)
(* main(), lines 629-644: the branch a row of sheet 1 takes.               *)
(***************************************************************************)
\* a faulty variant: the label is looked up before the empty 'Kopfform' is seen
Classify_dupfirst(label, kopfform, names) ==
    IF isna(label) THEN "BLANK"
    ELSE IF \E i \in DOMAIN names : names[i] = label.s THEN "DUPLICATE"
    ELSE IF isna(kopfform) THEN "HEADER"
    ELSE "VALID"

Classify(label, kopfform, names) ==
    IF isna(label) THEN "BLANK"
    ELSE IF isna(kopfform) THEN "HEADER"
    ELSE IF \E i \in DOMAIN names : names[i] = label.s THEN "DUPLICATE"
    ELSE "VALID"

(***************************************************************************)
(* main(), lines 592-623: the loading phases.  A load that fails ends the  *)
(* run: sys.exit(1), or the uncaught exception of os.listdir.              *)
(***************************************************************************)
LoadConfig ==
    /\ pc = "load_config"
    /\ \/ \E xml \in ConfigFiles :
             /\ config' = load_config(xml)
             /\ pc' = AfterPhase("load_config")
             /\ phases' = Append(phases, "load config")
             /\ log' = log
       \/ \E level \in {"ERROR", "CRITICAL"} :
             \* ET.ParseError is logged as an error, any other failure as critical
             /\ pc' = "exit1"
             /\ log' = Append(log, [level |-> level, msg |-> "Konfiguration"])
             /\ UNCHANGED <<config, phases>>
    /\ UNCHANGED <<cleaned, os_name, available_shapes, werkzeuge, werkzeuge_libs,
                   library_names_with_index, tool_names, tools_paths, classified,
                   calls, tool_writes, scanned, libraries_with_tool_paths, lib_writes>>

MakeOutputDirectory ==
    /\ pc = "makedirs"
    /\ \/ /\ pc' = AfterPhase("makedirs")
          /\ log' = log
       \/ /\ pc' = "exit1"
          /\ log' = Append(log, [level |-> "CRITICAL", msg |-> "Ausgabeverzeichnis"])
    /\ UNCHANGED <<cleaned, os_name, config, available_shapes, werkzeuge, werkzeuge_libs,
                   library_names_with_index, tool_names, tools_paths, classified, calls,
                   tool_writes, scanned, libraries_with_tool_paths, lib_writes, phases>>

ReadShapeFiles ==
    /\ pc = "read_shape_files"
    /\ \/ /\ available_shapes' = read_shape_files(ShapeDirListing)
          /\ pc' = AfterPhase("read_shape_files")
          /\ phases' = Append(phases, "load catalog")
       \/ /\ pc' = "crashed"
          /\ UNCHANGED <<available_shapes, phases>>
    /\ UNCHANGED <<cleaned, os_name, config, werkzeuge, werkzeuge_libs, library_names_with_index,
                   tool_names, tools_paths, classified, calls, tool_writes, scanned,
                   libraries_with_tool_paths, lib_writes, log>>

\* read_excel_sheet(sheet_name=0): the rows are drawn as the loop reaches them
ReadSheet1 ==
    /\ pc = "read_sheet1"
    /\ \/ /\ pc' = AfterPhase("read_sheet1")
          /\ phases' = Append(phases, "load primary sheet")
          /\ log' = log
       \/ /\ pc' = "exit1"
          /\ log' = Append(log, [level |-> "CRITICAL", msg |-> "Excel-Datei"])
          /\ UNCHANGED phases
    /\ UNCHANGED <<cleaned, os_name, config, available_shapes, werkzeuge, werkzeuge_libs,
                   library_names_with_index, tool_names, tools_paths, classified, calls,
                   tool_writes, scanned, libraries_with_tool_paths, lib_writes>>

\* read_excel_sheet(sheet_name=1, header=None): rows 0 and 1 are titles, row 2
\* names the libraries; the data rows are drawn as the loop reaches them
ReadSheet2 ==
    /\ pc = "read_sheet2"
    /\ \/ \E hdr \in HeadingRows :
             /\ werkzeuge_libs' = <<LibRow(NaN, NaN, NaN), LibRow(NaN, NaN, NaN), hdr>>
             /\ pc' = AfterPhase("read_sheet2")
             /\ phases' = Append(phases, "load secondary sheet")
             /\ log' = log
       \/ /\ pc' = "exit1"
          /\ log' = Append(log, [level |-> "CRITICAL", msg |-> "Excel-Datei"])
          /\ UNCHANGED <<werkzeuge_libs, phases>>
    /\ UNCHANGED <<cleaned, os_name, config, available_shapes, werkzeuge, library_names_with_index,
                   tool_names, tools_paths, classified, calls, tool_writes, scanned,
                   libraries_with_tool_paths, lib_writes>>

\* line 623
ReadAdditionalLibraries ==
    /\ pc = "read_additional_libraries"
    /\ library_names_with_index' = read_additional_libraries(werkzeuge_libs)
    /\ pc' = AfterPhase("read_additional_libraries")
    /\ phases' = Append(phases, "build library-column index")
    /\ UNCHANGED <<cleaned, os_name, config, available_shapes, werkzeuge, werkzeuge_libs, tool_names,
                   tools_paths, classified, calls, tool_writes, scanned,
                   libraries_with_tool_paths, lib_writes, log>>

(***************************************************************************)
(* main(), lines 626-653: one pass of the loop over sheet 1, with the call *)
(* of create_tool_definition (lines 161-382) it may make.  write_ok is     *)
(* whether open()/json.dump of the tool file succeeds.                     *)
(***************************************************************************)
ToolRow(row, write_ok) ==
    LET idx == Len(werkzeuge) + 1
        label == row["Bezeichnung"]
        kopfform == row["Kopfform"]
        tool_shape == get_shape_for_type(kopfform, config.type_shape_mapping, available_shapes)
        fctb_filename == FctbFilename(os_name, row, config)
        class == Classify(label, kopfform, tool_names)
    IN
    /\ pc = "tool_rows"
    /\ Len(werkzeuge) < MaxRows
    /\ werkzeuge' = Append(werkzeuge, row)
    /\ IF class = "BLANK" THEN
          /\ classified' = Append(classified, "BLANK")
          /\ log' = Append(log, [level |-> "WARNING", msg |-> "leer", row |-> idx])
          /\ UNCHANGED <<pc, tool_names, tools_paths, calls, tool_writes>>
       ELSE IF class = "HEADER" THEN
          /\ classified' = Append(classified, "HEADER")
          /\ log' = Append(log, [level |-> "WARNING", msg |-> "Ueberschrift", row |-> idx])
          /\ UNCHANGED <<pc, tool_names, tools_paths, calls, tool_writes>>
       ELSE IF class = "DUPLICATE" THEN
          /\ classified' = Append(classified, "DUPLICATE")
          /\ log' = Append(log, [level |-> "ERROR", msg |-> "nicht eindeutig",
                                 row |-> idx, name |-> label.s])
          /\ UNCHANGED <<pc, tool_names, tools_paths, calls, tool_writes>>
       ELSE
          /\ classified' = Append(classified, "VALID")
          /\ tool_names' = Append(tool_names, label.s)
          /\ IF ~Truthy(tool_shape) THEN
                \* get_shape_for_type warns, create_tool_definition returns None
                /\ calls' = Append(calls, [row |-> idx, tool_shape |-> None, raised |-> FALSE,
                                           values |-> <<>>, result |-> None])
                /\ log' = log \o <<[level |-> "WARNING", msg |-> "Kein Shape",
                                    name |-> label.s, type |-> PyStr(kopfform)],
                                   [level |-> "ERROR", msg |-> "Keine Tool-Definition",
                                    row |-> idx]>>
                /\ UNCHANGED <<pc, tools_paths, tool_writes>>
             ELSE IF DivRaises(row) THEN
                \* line 204 raises TypeError, which nothing catches
                /\ calls' = Append(calls, [row |-> idx, tool_shape |-> tool_shape,
                                           raised |-> TRUE, values |-> <<>>, result |-> None])
                /\ pc' = "crashed"
                /\ UNCHANGED <<tools_paths, tool_writes, log>>
             ELSE
                /\ calls' = Append(calls, [row |-> idx, tool_shape |-> tool_shape,
                                           raised |-> FALSE, values |-> ToolValues(row),
                                           result |-> fctb_filename])
                /\ tool_writes' = Append(tool_writes,
                                         [path |-> fctb_filename, row |-> idx, ok |-> write_ok,
                                          data |-> ToolData(row, config, tool_shape)])
                /\ log' = log
                          \o (IF write_ok THEN <<>>
                              ELSE <<[level |-> "CRITICAL", msg |-> "Werkzeug-Datei",
                                      path |-> fctb_filename]>>)
                          \o <<[level |-> "INFO", msg |-> "Tool-Definition erstellt",
                                row |-> idx, name |-> label.s]>>
                /\ tools_paths' = Append(tools_paths, fctb_filename)
                /\ UNCHANGED pc
    /\ UNCHANGED <<cleaned, os_name, config, available_shapes, werkzeuge_libs, library_names_with_index,
                   scanned, libraries_with_tool_paths, lib_writes, phases>>

ToolRowStep == \E row \in RowSet, write_ok \in BOOLEAN : ToolRow(row, write_ok)

\* the end of sheet 1: line 656, then lines 437-443 of generate_library_tool_structure
ToolRowsEnd ==
    /\ pc = "tool_rows"
    /\ tools_paths' = SelectSeq(tools_paths, Truthy)
    /\ libraries_with_tool_paths' =
           [l \in {library_names_with_index[i][1] : i \in DOMAIN library_names_with_index}
               |-> <<>>]
    /\ pc' = AfterPhase("tool_rows")
    /\ phases' = Append(phases, "validate+build tool records")
    /\ UNCHANGED <<cleaned, os_name, config, available_shapes, werkzeuge, werkzeuge_libs,
                   library_names_with_index, tool_names, classified, calls, tool_writes,
                   scanned, lib_writes, log>>

(***************************************************************************)
(* generate_library_tool_structure, lines 446-456: one pass of the loop    *)
(* over sheet 2, which starts at its first row, the titles included.       *)
(***************************************************************************)
AssignTools ==
    /\ pc = "assign"
    /\ \/ /\ scanned < Len(werkzeuge_libs)
          /\ libraries_with_tool_paths' =
                 AssignRow(libraries_with_tool_paths, werkzeuge_libs[scanned + 1],
                           library_names_with_index, tools_paths)
          /\ UNCHANGED werkzeuge_libs
       \/ /\ scanned = Len(werkzeuge_libs)
          /\ Len(werkzeuge_libs) < HeaderRowIndex + 1 + MaxLibRows
          /\ \E row \in LibRowSet :
                /\ werkzeuge_libs' = Append(werkzeuge_libs, row)
                /\ libraries_with_tool_paths' =
                       AssignRow(libraries_with_tool_paths, row,
                                 library_names_with_index, tools_paths)
    /\ scanned' = scanned + 1
    /\ UNCHANGED <<cleaned, pc, os_name, config, available_shapes, werkzeuge, library_names_with_index,
                   tool_names, tools_paths, classified, calls, tool_writes, lib_writes, log,
                   phases>>

\* the end of sheet 2: line 458
AssignEnd ==
    /\ pc = "assign"
    /\ scanned = Len(werkzeuge_libs)
    /\ pc' = AfterPhase("assign")
    /\ phases' = Append(phases, "assign tools to libraries")
    /\ UNCHANGED <<cleaned, os_name, config, available_shapes, werkzeuge, werkzeuge_libs,
                   library_names_with_index, tool_names, tools_paths, classified, calls,
                   tool_writes, scanned, libraries_with_tool_paths, lib_writes, log>>

(***************************************************************************)
(* generate_library_files, lines 463-481: one pass of the loop over the    *)
(* libraries; write_ok is whether the library file can be written.         *)
(***************************************************************************)
\* a faulty variant: the IOError of a library file is not caught
WriteLibrary_uncaught(write_ok) ==
    /\ pc = "write_libs"
    /\ Len(lib_writes) < Len(library_names_with_index)
    /\ LET library_name == library_names_with_index[Len(lib_writes) + 1][1]
           fctl_filename == FctlFilename(os_name, library_name, config)
       IN /\ lib_writes' = Append(lib_writes,
                 [path |-> fctl_filename, library |-> library_name, ok |-> write_ok,
                  data |-> LibraryData(os_name, libraries_with_tool_paths[library_name],
                                       config)])
          /\ log' = IF write_ok
                    THEN Append(log, [level |-> "INFO", msg |-> "Bibliotheks-Datei erstellt",
                                      path |-> fctl_filename])
                    ELSE log
    /\ pc' = IF write_ok THEN pc ELSE "crashed"
    /\ UNCHANGED <<cleaned, os_name, config, available_shapes, werkzeuge, werkzeuge_libs,
                   library_names_with_index, tool_names, tools_paths, classified, calls,
                   tool_writes, scanned, libraries_with_tool_paths, phases>>

WriteLibrary(write_ok) ==
    /\ pc = "write_libs"
    /\ Len(lib_writes) < Len(library_names_with_index)
    /\ LET library_name == library_names_with_index[Len(lib_writes) + 1][1]
           fctl_filename == FctlFilename(os_name, library_name, config)
       IN /\ lib_writes' = Append(lib_writes,
                 [path |-> fctl_filename, library |-> library_name, ok |-> write_ok,
                  data |-> LibraryData(os_name, libraries_with_tool_paths[library_name],
                                       config)])
          /\ log' = Append(log, IF write_ok
                                THEN [level |-> "INFO", msg |-> "Bibliotheks-Datei erstellt",
                                      path |-> fctl_filename]
                                ELSE [level |-> "CRITICAL", msg |-> "Bibliotheks-Datei",
                                      path |-> fctl_filename])
    /\ UNCHANGED <<cleaned, pc, os_name, config, available_shapes, werkzeuge, werkzeuge_libs,
                   library_names_with_index, tool_names, tools_paths, classified, calls,
                   tool_writes, scanned, libraries_with_tool_paths, phases>>

WriteLibraryStep == \E write_ok \in BOOLEAN : WriteLibrary(write_ok)

\* the last library is written: main() returns
WriteLibrariesEnd ==
    /\ pc = "write_libs"
    /\ Len(lib_writes) = Len(library_names_with_index)
    /\ pc' = AfterPhase("write_libs")
    /\ phases' = Append(phases, "write library records")
    /\ UNCHANGED <<cleaned, os_name, config, available_shapes, werkzeuge, werkzeuge_libs,
                   library_names_with_index, tool_names, tools_paths, classified, calls,
                   tool_writes, scanned, libraries_with_tool_paths, lib_writes, log>>

Next ==
    \/ LoadConfig
    \/ MakeOutputDirectory
    \/ ReadShapeFiles
    \/ ReadSheet1
    \/ ReadSheet2
    \/ ReadAdditionalLibraries
    \/ ToolRowStep
    \/ ToolRowsEnd
    \/ AssignTools
    \/ AssignEnd
    \/ WriteLibraryStep
    \/ WriteLibrariesEnd

Spec == Init /\ [][Next]_vars

(***************************************************************************)
(* clean_filename by itself: the function applied to any short text over   *)
(* characters of each kind it treats: letters, a digit, the underscore,    *)
(* the hyphen, the degree sign, and characters it strips.                  *)
(***************************************************************************)
\* the longest text tried
MaxTextLen == 3

TextChars == {"a", "G", "7", "_", "-", "°", " ", "Ø", "."}

Texts == UNION {[1 .. n -> TextChars] : n \in 0 .. MaxTextLen}

CleanInit ==
    /\ pc = "clean_filename"
    /\ os_name \in {"nt", "posix"}
    /\ config = NoConfig
    /\ available_shapes = <<>>
    /\ werkzeuge = <<>>
    /\ werkzeuge_libs = <<>>
    /\ library_names_with_index = <<>>
    /\ tool_names = <<>>
    /\ tools_paths = <<>>
    /\ classified = <<>>
    /\ calls = <<>>
    /\ tool_writes = <<>>
    /\ scanned = 0
    /\ libraries_with_tool_paths = <<>>
    /\ lib_writes = <<>>
    /\ log = <<>>
    /\ phases = <<>>
    /\ cleaned = <<>>

CleanFilename ==
    /\ pc = "clean_filename"
    /\ cleaned = <<>>
    /\ \E filename \in Texts :
          cleaned' = <<[filename |-> filename, result |-> clean_filename(filename)]>>
    /\ UNCHANGED <<pc, os_name, config, available_shapes, werkzeuge, werkzeuge_libs,
                   library_names_with_index, tool_names, tools_paths, classified, calls,
                   tool_writes, scanned, libraries_with_tool_paths, lib_writes, log, phases>>

CleanSpec == CleanInit /\ [][CleanFilename]_vars

(***************************************************************************)
(* The properties.                                                         *)
(***************************************************************************)
NoRepeat(seq) == \A i, j \in DOMAIN seq : i # j => seq[i] # seq[j]

\* the rows of sheet 1 for which create_tool_definition wrote, or tried to
\* write, a tool file
BuiltRows == {tool_writes[i].row : i \in DOMAIN tool_writes}

\* C1: the record names and the output paths of the tool records of one run
\* are pairwise distinct: no tool file is written twice and the collected
\* list of tool paths has no repeated entry.
C1_NamesDistinct ==
    /\ \A i, j \in DOMAIN tool_writes :
          i # j => /\ tool_writes[i].data.name # tool_writes[j].data.name
                   /\ tool_writes[i].path # tool_writes[j].path
    /\ NoRepeat(tools_paths)

\* the parameter keys of a canonical category (the table of the ten
\* categories, in the spelling of the program's keys)
CategoryKeys(category) ==
    CASE category = sBallend ->
            {"Chipload", "CuttingEdgeHeight", "Diameter", "Flutes", "Length", "Material",
             "ShankDiameter"}
      [] category = sBullnose ->
            {"Chipload", "CuttingEdgeHeight", "Diameter", "FlatRadius", "Flutes", "Length",
             "Material", "ShankDiameter"}
      [] category = sChamfer ->
            {"Chipload", "CuttingEdgeAngle", "CuttingEdgeHeight", "Diameter", "Flutes",
             "Length", "Material", "ShankDiameter", "TipDiameter"}
      [] category = sDrill ->
            {"Chipload", "Diameter", "Flutes", "Length", "Material", "TipAngle"}
      [] category = sEndmill ->
            {"Chipload", "CuttingEdgeHeight", "Diameter", "Flutes", "Length", "Material",
             "ShankDiameter", "SpindleDirection"}
      [] category = sFlatend ->
            {"Chipload", "CuttingEdgeHeight", "Diameter", "Flutes", "Length", "Material",
             "ShankDiameter"}
      [] category = sProbe ->
            {"Diameter", "Flutes", "Length", "ShankDiameter", "spindlePower"}
      [] category = sSlittingsaw ->
            {"BladeThickness", "CapDiameter", "CapHeight", "Chipload", "Diameter", "Flutes",
             "Length", "Material", "ShankDiameter"}
      [] category = sThreadMill ->
            {"Chipload", "Crest", "Diameter", "Flutes", "Length", "Material", "NeckDiameter",
             "NeckLength", "ShankDiameter", "cuttingAngle"}
      [] category = sVBit ->
            {"Chipload", "CuttingEdgeAngle", "CuttingEdgeHeight", "Diameter", "Flutes",
             "Length", "Material", "ShankDiameter", "TipDiameter"}
      [] OTHER -> {}

\* the canonical category of a template file of the catalog: its key
CategoryOf(shape_file) ==
    CHOOSE k \in DOMAIN available_shapes : available_shapes[k] = shape_file

\* C2: the parameter mapping of every tool record holds exactly the keys of
\* the canonical category of its resolved shape, the shape being taken from
\* the catalog read_shape_files built.
C2_ParameterKeys ==
    \A i \in DOMAIN tool_writes :
        DOMAIN tool_writes[i].data.parameter
            = CategoryKeys(CategoryOf(tool_writes[i].data.shape))

\* C3: a tool whose file could not be written is logged, the run goes on,
\* and its path is neither in the list of tool paths nor in any library.
C3_FailedWriteAbsent ==
    \A i \in DOMAIN tool_writes :
        ~tool_writes[i].ok =>
            /\ \E n \in DOMAIN log : /\ log[n].level = "CRITICAL"
                                     /\ log[n].msg = "Werkzeug-Datei"
                                     /\ log[n].path = tool_writes[i].path
            /\ Len(werkzeuge) = tool_writes[i].row
                   => pc \in {"tool_rows", "assign", "write_libs", "done"}
            /\ tool_writes[i].path \notin Range(tools_paths)
            /\ \A l \in DOMAIN libraries_with_tool_paths :
                   tool_writes[i].path \notin Range(libraries_with_tool_paths[l])

LabelOf(k) == werkzeuge[k]["Bezeichnung"]

KopfformOf(k) == werkzeuge[k]["Kopfform"]

RowsOfClass(c) == {k \in DOMAIN classified : classified[k] = c}

\* the labels the rows before row k have added to the seen labels
SeenBefore(k) == {LabelOf(j).s : j \in {j \in RowsOfClass("VALID") : j < k}}

\* the rule for row k: the first of the four that applies
RuleFor(k) ==
    IF isna(LabelOf(k)) THEN "BLANK"
    ELSE IF isna(KopfformOf(k)) THEN "HEADER"
    ELSE IF LabelOf(k).s \in SeenBefore(k) THEN "DUPLICATE"
    ELSE "VALID"

SameLabel(i, j) ==
    /\ ~isna(LabelOf(i))
    /\ ~isna(LabelOf(j))
    /\ LabelOf(i).s = LabelOf(j).s

\* C4 as stated, its last part: of two rows with an identical label only the
\* first can produce an output file.
C4_OnlyFirstBuilds ==
    \A i, j \in DOMAIN werkzeuge : (i < j /\ SameLabel(i, j)) => j \notin BuiltRows

\* C4, amended: every row the loop has passed took the branch of the first
\* rule that applies (label absent: BLANK; category absent: HEADER; label
\* seen: DUPLICATE; else VALID); exactly the VALID rows added their label to
\* the seen labels and were handed to create_tool_definition; of the rows
\* with one label at most one produces an output file, and a later one does
\* so only if every earlier one was a HEADER.
C4_Classification ==
    /\ DOMAIN classified = DOMAIN werkzeuge
    /\ \A k \in DOMAIN werkzeuge : classified[k] = RuleFor(k)
    /\ Len(tool_names) = Cardinality(RowsOfClass("VALID"))
    /\ Range(tool_names) = SeenBefore(Len(werkzeuge) + 1)
    /\ NoRepeat(tool_names)
    /\ {calls[i].row : i \in DOMAIN calls} = RowsOfClass("VALID")
    /\ NoRepeat([i \in DOMAIN calls |-> calls[i].row])
    /\ BuiltRows \subseteq RowsOfClass("VALID")
    /\ \A i, j \in DOMAIN werkzeuge :
          (i < j /\ SameLabel(i, j)) =>
              /\ ~(i \in BuiltRows /\ j \in BuiltRows)
              /\ j \in BuiltRows => classified[i] = "HEADER"

\* a first row that is built and a second row with the same label
C4_Witness ==
    /\ Len(werkzeuge) >= 2
    /\ classified[1] = "VALID"
    /\ classified[2] = "DUPLICATE"
    /\ 1 \in BuiltRows

\* C5: for every entry (c, t) of the configured mapping with t in the
\* catalog, a call whose head-shape value equals c but for the case of its
\* letters resolves to the catalog's file of t.
C5_CaseInsensitive ==
    \A i \in DOMAIN calls :
        \A c \in DOMAIN config.type_shape_mapping :
            LET t == config.type_shape_mapping[c]
            IN (/\ t \in DOMAIN available_shapes
                /\ StrLower(PyStr(KopfformOf(calls[i].row))) = StrLower(c))
               => calls[i].tool_shape = available_shapes[t]

\* the head-shape value of row k has no entry in the mapping, whatever the
\* case of its letters, or the template its entry names is not in the catalog
Unresolvable(k) ==
    LET mapping == config.type_shape_mapping
        entries == {c \in DOMAIN mapping : StrLower(c) = StrLower(PyStr(KopfformOf(k)))}
    IN \/ entries = {}
       \/ \A c \in entries : mapping[c] \notin DOMAIN available_shapes

ShapeWarnings(k) ==
    {n \in DOMAIN log : /\ log[n].level = "WARNING"
                        /\ log[n].msg = "Kein Shape"
                        /\ log[n].name = LabelOf(k).s
                        /\ log[n].type = PyStr(KopfformOf(k))}

\* the paths create_tool_definition returned, in the order of its calls
ReturnedPaths ==
    LET made == SelectSeq(calls, LAMBDA c : Truthy(c.result))
    IN [i \in DOMAIN made |-> made[i].result]

\* C6: a row whose category has no entry in the mapping, or whose template
\* is not in the catalog, resolves to no shape; a row that resolves to no
\* shape gets exactly one warning with its label and category, no tool file
\* and no entry in the tool paths, and the pass goes on after it.
C6_UnresolvedSkipped ==
    /\ \A i \in DOMAIN calls :
          /\ Unresolvable(calls[i].row) => ~Truthy(calls[i].tool_shape)
          /\ ~Truthy(calls[i].tool_shape) =>
                /\ Cardinality(ShapeWarnings(calls[i].row)) = 1
                /\ ~Truthy(calls[i].result)
                /\ calls[i].row \notin BuiltRows
                /\ Len(werkzeuge) = calls[i].row
                       => pc \in {"tool_rows", "assign", "write_libs", "done"}
    /\ tools_paths = ReturnedPaths

\* a row whose template is not in the catalog, and a row after it
C6_Witness ==
    \E i \in DOMAIN calls :
        /\ Unresolvable(calls[i].row)
        /\ \E c \in DOMAIN config.type_shape_mapping :
              StrLower(c) = StrLower(PyStr(KopfformOf(calls[i].row)))
        /\ Len(werkzeuge) > calls[i].row
        /\ BuiltRows # {}

\* the column of a library in library_names_with_index
LibCol(name) ==
    library_names_with_index[CHOOSE i \in DOMAIN library_names_with_index :
                                 library_names_with_index[i][1] = name][2]

\* row r of sheet 2 names the tool of label in its first column
RowNames(r, label) ==
    /\ ~isna(werkzeuge_libs[r][1])
    /\ clean_filename(werkzeuge_libs[r][1].s) = clean_filename(label)

\* C7: once sheet 2 is scanned, for any prefix and output directory, the
\* path of a tool record produced for a label L is in the list of every
\* library in whose column a row naming L (after sanitizing) has the marker
\* "x", and in the list of no other library.
C7_MarkedToolsAssigned ==
    pc \in {"write_libs", "done"} =>
        \A i \in DOMAIN calls : Truthy(calls[i].result) =>
            \A l \in DOMAIN libraries_with_tool_paths :
                calls[i].result \in Range(libraries_with_tool_paths[l])
                    <=> \E r \in 1 .. scanned :
                            /\ RowNames(r, LabelOf(calls[i].row).s)
                            /\ IsMarked(werkzeuge_libs[r][LibCol(l) + 1])

\* base is the last component of path on this platform
IsBaseNameOf(base, path) ==
    /\ \A n \in DOMAIN base : base[n] \notin PathSeps(os_name)
    /\ EndsWith(path, base)
    /\ Len(path) > Len(base) => path[Len(path) - Len(base)] \in PathSeps(os_name)

\* the entries come from rows of sheet 2 in ascending order, each row marking
\* the library and naming the tool whose file the entry gives
InRowOrder(tools, library) ==
    \E f \in [DOMAIN tools -> 1 .. scanned] :
        /\ \A i, j \in DOMAIN tools : i < j => f[i] < f[j]
        /\ \A i \in DOMAIN tools :
              /\ ~isna(werkzeuge_libs[f[i]][1])
              /\ IsMarked(werkzeuge_libs[f[i]][LibCol(library) + 1])
              /\ tools[i].path
                     = config.prefix \o clean_filename(werkzeuge_libs[f[i]][1].s) \o ExtFctb

\* C8: in every library record written the numbers are 1, 2, ..., n in list
\* order, the entries are in the order of the rows of sheet 2 that assigned
\* them, each path is the file name of the tool without its directory, and
\* the version is the configured one.
C8_LibraryRecords ==
    \A n \in DOMAIN lib_writes :
        lib_writes[n].ok =>
            LET tools == lib_writes[n].data.tools
                assigned == libraries_with_tool_paths[lib_writes[n].library]
            IN /\ DOMAIN tools = 1 .. Len(assigned)
               /\ \A i \in DOMAIN tools :
                     /\ tools[i].nr = i
                     /\ IsBaseNameOf(tools[i].path, assigned[i])
                     /\ \E w \in DOMAIN tool_writes :
                           /\ tool_writes[w].path = assigned[i]
                           /\ tools[i].path = tool_writes[w].data.name \o ExtFctb
               /\ InRowOrder(tools, lib_writes[n].library)
               /\ lib_writes[n].data.version = config.library_version

\* a written library record of two tools
C8_Witness ==
    \E n \in DOMAIN lib_writes :
        /\ lib_writes[n].ok
        /\ Len(lib_writes[n].data.tools) >= 2
        /\ lib_writes[n].data.tools[1].path # lib_writes[n].data.tools[2].path

\* C9: for a row whose cell is empty the value built is the fixed default:
\* the diameter "1.00 mm", the flute count "0", the cutting angle "90.00 °".
C9_Defaults ==
    \A i \in DOMAIN calls :
        Truthy(calls[i].result) =>
            LET row == werkzeuge[calls[i].row]
                v == calls[i].values
            IN /\ isna(row["Schneidende Ø"])
                     => v.diameter = <<"1", ".", "0", "0", " ", "m", "m">>
               /\ isna(row["Zahnanzahl"]) => v.flutes = <<"0">>
               /\ isna(row["Schneidwinkel"])
                     => v.cuttingEdgeAngle = <<"9", "0", ".", "0", "0", " ", "°">>

IsPrefix(s, t) == Len(s) <= Len(t) /\ s = SubSeq(t, 1, Len(s))

\* C10 as stated: the phases run in the order load config, load catalog,
\* load primary sheet, load secondary sheet, validate+build tool records,
\* build library-column index, assign tools to libraries, write library
\* records.
C10_StatedOrder ==
    IsPrefix(phases, <<"load config", "load catalog", "load primary sheet",
                       "load secondary sheet", "validate+build tool records",
                       "build library-column index", "assign tools to libraries",
                       "write library records">>)

\* C10, amended: the phases run in the order load config, load catalog, load
\* primary sheet, load secondary sheet, build library-column index,
\* validate+build tool records, assign tools to libraries, write library
\* records; the library-column index is built before the first row of sheet
\* 1 is classified, and no library record is written before the pass over
\* sheet 1 has ended.
C10_PhaseOrder ==
    /\ IsPrefix(phases, <<"load config", "load catalog", "load primary sheet",
                          "load secondary sheet", "build library-column index",
                          "validate+build tool records", "assign tools to libraries",
                          "write library records">>)
    /\ (pc = "tool_rows" \/ werkzeuge # <<>>)
           => "build library-column index" \in Range(phases)
    /\ (pc = "write_libs" \/ lib_writes # <<>>)
           => /\ "validate+build tool records" \in Range(phases)
              /\ "assign tools to libraries" \in Range(phases)
    /\ pc = "done" <=> "write library records" \in Range(phases)

\* a finished run that classified rows and wrote a library record
C10_Witness ==
    /\ pc = "done"
    /\ Len(werkzeuge) = MaxRows
    /\ \E n \in DOMAIN lib_writes : lib_writes[n].ok

\* the library names of the heading row of sheet 2: its cells from the
\* first library column on that are not empty
DiscoveredNames ==
    LET hdr == werkzeuge_libs[HeaderRowIndex + 1]
    IN {hdr[c].s : c \in {c \in (LibColOffset + 1) .. Len(hdr) : ~isna(hdr[c])}}

\* C11: a run that returns has attempted one library write for every name of
\* the heading row, with or without tools; every failed write of a tool or
\* library file is logged; a failed write ends no run: the run stops only
\* for a failed load or an exception of create_tool_definition, and
\* otherwise goes on to its return.
C11_AllWritesAttempted ==
    /\ pc = "done" =>
          /\ {lib_writes[n].library : n \in DOMAIN lib_writes} = DiscoveredNames
          /\ Len(lib_writes) = Cardinality(DiscoveredNames)
    /\ \A n \in DOMAIN lib_writes :
          ~lib_writes[n].ok =>
              \E m \in DOMAIN log : /\ log[m].level = "CRITICAL"
                                    /\ log[m].msg = "Bibliotheks-Datei"
                                    /\ log[m].path = lib_writes[n].path
    /\ \A n \in DOMAIN tool_writes :
          ~tool_writes[n].ok =>
              \E m \in DOMAIN log : /\ log[m].level = "CRITICAL"
                                    /\ log[m].msg = "Werkzeug-Datei"
                                    /\ log[m].path = tool_writes[n].path
    /\ pc = "exit1" => tool_writes = <<>> /\ lib_writes = <<>>
    /\ pc = "crashed" =>
          /\ lib_writes = <<>>
          /\ tool_writes # <<>> => calls[Len(calls)].raised
    /\ pc \notin {"done", "exit1", "crashed"} => ENABLED Next

\* a run that returned after a failed tool write, a failed library write and
\* a later successful one, one library being empty
C11_Witness ==
    /\ pc = "done"
    /\ \E n \in DOMAIN tool_writes : ~tool_writes[n].ok /\ n < Len(tool_writes)
    /\ Len(lib_writes) >= 2
    /\ ~lib_writes[1].ok
    /\ lib_writes[2].ok
    /\ \E n \in DOMAIN lib_writes : lib_writes[n].data.tools = <<>>
    /\ \E n \in DOMAIN lib_writes : lib_writes[n].data.tools # <<>>

\* C12: for every text x, clean_filename(x) holds only ASCII letters, digits
\* and the underscore, clean_filename(clean_filename(x)) = clean_filename(x),
\* and the empty text gives the empty text.
C12_SanitizeIdempotent ==
    \A n \in DOMAIN cleaned :
        /\ \A i \in DOMAIN cleaned[n].result :
              cleaned[n].result[i] \in
                  Range(DigitChars) \cup Range(UpperChars) \cup Range(LowerChars) \cup {"_"}
        /\ clean_filename(cleaned[n].result) = cleaned[n].result
        /\ cleaned[n].filename = <<>> => cleaned[n].result = <<>>

\* a text with a stripped character, a hyphen and a degree sign
C12_Witness ==
    \E n \in DOMAIN cleaned :
        /\ cleaned[n].filename = <<"Ø", "-", "°">>
        /\ cleaned[n].result = <<"_", "G">>

\* row r of sheet 2 names a built tool: its sanitized first cell is what is
\* left of the file name of a returned path without the prefix and extension
MatchesBuilt(r) ==
    /\ ~isna(werkzeuge_libs[r][1])
    /\ \E i \in DOMAIN tools_paths :
          ToolKey(tools_paths[i]) = clean_filename(werkzeuge_libs[r][1].s)

\* C13: every path in the list of a library is a path create_tool_definition
\* returned in this run, and every tool reference of a library record is the
\* base file name of such a path; a library has exactly one entry for each
\* scanned row of sheet 2 that names a built tool and marks the library, so
\* a row that names no built tool adds nothing, whatever its markers.
C13_LibrariesOnlyBuiltTools ==
    /\ \A l \in DOMAIN libraries_with_tool_paths :
          /\ \A i \in DOMAIN libraries_with_tool_paths[l] :
                \E c \in DOMAIN calls :
                    /\ Truthy(calls[c].result)
                    /\ calls[c].result = libraries_with_tool_paths[l][i]
                    /\ \E t \in DOMAIN tools_paths :
                          tools_paths[t] = libraries_with_tool_paths[l][i]
          /\ Len(libraries_with_tool_paths[l])
                 = Cardinality({r \in 1 .. scanned :
                                   /\ MatchesBuilt(r)
                                   /\ IsMarked(werkzeuge_libs[r][LibCol(l) + 1])})
    /\ \A n \in DOMAIN lib_writes :
          \A i \in DOMAIN lib_writes[n].data.tools :
              \E c \in DOMAIN calls :
                  /\ Truthy(calls[c].result)
                  /\ IsBaseNameOf(lib_writes[n].data.tools[i].path, calls[c].result)

\* a finished run in which a marked row of sheet 2 names no built tool, while
\* tools were built and a library record with a tool was written
C13_Witness ==
    /\ pc = "done"
    /\ tools_paths # <<>>
    /\ \E r \in 1 .. scanned :
          /\ ~isna(werkzeuge_libs[r][1])
          /\ ~MatchesBuilt(r)
          /\ \E l \in DOMAIN libraries_with_tool_paths :
                IsMarked(werkzeuge_libs[r][LibCol(l) + 1])
    /\ \E n \in DOMAIN lib_writes : Len(lib_writes[n].data.tools) >= 1

====
